---- MODULE Spec2Model ----
(***************************************************************************)
(* Model of main.go: Load -> Compute in memory -> Export.                  *)
(*                                                                         *)
(* The compute phase works on Go float64 values.  A non-negative finite    *)
(* float64 is modelled exactly, as the set of the binary digit positions   *)
(* of its value: {1, -1} is 2 + 1/2 = 2.5 and {} is 0.  A set is a float64 *)
(* when its highest and lowest positions are at most 52 apart; arithmetic  *)
(* computes the exact result and rounds it to 53 significant digits, ties  *)
(* to even, as IEEE 754 binary64 does.  (Exponent range, negative values   *)
(* and NaN do not occur for the inputs of the model.)                      *)
(***************************************************************************)
EXTENDS Integers, Sequences, FiniteSets, TLC

\* ---------------------------------------------------------------------
\* Exact binary arithmetic on sets of digit positions
\* ---------------------------------------------------------------------

Shift(a, k) == {i + k : i \in a}

Xor(a, b) == (a \ b) \cup (b \ a)

MaxBit(a) == CHOOSE i \in a : \A j \in a : j <= i

\* a < b as numbers
BitLess(a, b) == \E i \in b \ a : \A j \in a \ b : j < i

RECURSIVE BitAdd(_, _)
BitAdd(a, b) == IF b = {} THEN a ELSE BitAdd(Xor(a, b), Shift(a \cap b, 1))

RECURSIVE BitMul(_, _)
BitMul(a, b) ==
  IF b = {} THEN {}
  ELSE LET i == MaxBit(b) IN BitAdd(Shift(a, i), BitMul(a, b \ {i}))

\* the binary digits of a natural number, and back
FromNat(n) == {i \in 0..30 : (n \div 2^i) % 2 = 1}

RECURSIVE ToNat(_)
ToNat(a) == IF a = {} THEN 0 ELSE LET i == MaxBit(a) IN 2^i + ToNat(a \ {i})

\* ---------------------------------------------------------------------
\* float64
\* ---------------------------------------------------------------------

\* width of the float64 significand
Mant == 53

\* round an exact value to the nearest float64, ties to even
Round53(a) ==
  IF a = {} THEN {}
  ELSE LET lsb   == MaxBit(a) - (Mant - 1)
           kept  == {i \in a : i >= lsb}
           guard == (lsb - 1) \in a
           stick == \E i \in a : i < lsb - 1
       IN IF guard /\ (stick \/ lsb \in kept) THEN BitAdd(kept, {lsb}) ELSE kept

\* x + y
FAdd(x, y) == Round53(BitAdd(x, y))

\* x * y
FMul(x, y) == Round53(BitMul(x, y))

\* the natural number of the digits 0..30 of a
RECURSIVE NatOf(_, _)
NatOf(a, i) ==
  IF i < 0 THEN 0 ELSE (IF i \in a THEN 2^i ELSE 0) + NatOf(a, i - 1)

\* The significand of x # {} as a 53-digit integer hi * 2^26 + lo, so that
\* x = (hi * 2^26 + lo) * 2^(MaxBit(x) - 52); two machine integers hold it.
Significand(x) ==
  LET t == MaxBit(x)
  IN [hi |-> NatOf(Shift({i \in x : i >= t - 26}, 26 - t), 26),
      lo |-> NatOf(Shift({i \in x : i < t - 26}, 52 - t), 25)]

\* r >= m, r - m and 2 * r on such integers
SigGeq(r, m) == r.hi > m.hi \/ (r.hi = m.hi /\ r.lo >= m.lo)
SigSub(r, m) ==
  IF r.lo >= m.lo THEN [hi |-> r.hi - m.hi, lo |-> r.lo - m.lo]
  ELSE [hi |-> r.hi - m.hi - 1, lo |-> r.lo + 2^26 - m.lo]
SigDouble(r) ==
  [hi |-> 2 * r.hi + ((2 * r.lo) \div 2^26), lo |-> (2 * r.lo) % 2^26]

\* digits k, k-1, ..., low of rem / m by long division (rem < 2 * m); a
\* digit below `low` stands for a non-zero remainder
RECURSIVE DivDigits(_, _, _, _)
DivDigits(rem, m, k, low) ==
  IF k < low THEN (IF rem.hi = 0 /\ rem.lo = 0 THEN {} ELSE {low - 1})
  ELSE IF SigGeq(rem, m)
       THEN {k} \cup DivDigits(SigDouble(SigSub(rem, m)), m, k - 1, low)
       ELSE DivDigits(SigDouble(rem), m, k - 1, low)

\* x / y, for y # 0
FDiv(x, y) ==
  IF x = {} THEN {}
  ELSE Round53(Shift(DivDigits(Significand(x), Significand(y), 0, -(Mant + 2)),
                     MaxBit(x) - MaxBit(y)))

\* x < y, x >= y
FLess(x, y) == BitLess(x, y)
FGeq(x, y) == ~BitLess(x, y)

\* float64(n) for a small non-negative int
Float(n) == FromNat(n)

\* a decimal literal num/den of the Go source, e.g. 0.025 = Lit(25, 1000)
Lit(num, den) == FDiv(FromNat(num), FromNat(den))

MathRound_Trunc(x) == {i \in x : i >= 0}

\* math.Round: nearest integer, halves away from zero (x >= 0)
MathRound(x) == {i \in BitAdd(x, {-1}) : i >= 0}

\* math.Ceil (x >= 0)
MathCeil(x) ==
  LET ip == {i \in x : i >= 0}
  IN IF ip = x THEN x ELSE BitAdd(ip, {0})

\* int(x) for an integral x >= 0
ToInt(x) == ToNat(x)

\* ---------------------------------------------------------------------
\* Bounds and input domains
\* ---------------------------------------------------------------------

\* longest price / contact input of the resolver runs
MaxRecs == 3
\* InsertDate values are 1..MaxDate
MaxDate == 2

\* longest event input of the aggregator runs
MaxEvents == 3
\* largest number of customers of the bucketer runs
MaxCustomers == 4

ContentIDs == {10, 11}
\* a content no price record mentions
UnpricedID == 99
Quantities == {0, 2}
CustomerIDs == {100, 101}
Dates == 1..MaxDate
\* 9.99 and 5.00, the prices of the tests
PriceVals == {Lit(999, 100), Float(5)}
ChannelVals == {"old@example.com", "new@example.com"}
\* customers and revenues of the bucketer runs: 0, 9.99, 19.98
RankedIDs == 100..(99 + MaxCustomers)
CAVals == {{}, Lit(999, 100), Lit(1998, 100)}
\* -quantile values: the default 0.025 (40 buckets), 0.25, 0.5 and 1 of the
\* tests, 0.4 (1/q = 2.5, a half), 2/93 (1/q just below 46.5) and 4 (1/q
\* rounds to 0)
Quantiles ==
  {Lit(25, 1000), Lit(25, 100), Lit(5, 10), Float(1), Lit(4, 10), Lit(2, 93), Float(4)}

\* []ContentPriceRow as loaded: ContentPriceID is the row's primary key
PriceInputs(n) ==
  {[i \in 1..n |-> [ContentPriceID |-> i, ContentID |-> f[i][1],
                     Price |-> f[i][2], InsertDate |-> f[i][3]]] :
     f \in [1..n -> ContentIDs \X PriceVals \X Dates]}

\* []CustomerDataRow as loaded: CustomerChannelID is the row's primary key
EmailInputs(n) ==
  {[i \in 1..n |-> [CustomerChannelID |-> i, CustomerID |-> f[i][1],
                     ChannelValue |-> f[i][2], InsertDate |-> f[i][3]]] :
     f \in [1..n -> CustomerIDs \X ChannelVals \X Dates]}

\* []EventRow as loaded: EventDataID is the row's primary key
EventInputs(n) ==
  {[i \in 1..n |-> [EventDataID |-> i, ContentID |-> f[i][1],
                     CustomerID |-> f[i][2], Quantity |-> f[i][3]]] :
     f \in [1..n -> (ContentIDs \cup {UnpricedID}) \X CustomerIDs \X Quantities]}

\* ---------------------------------------------------------------------
\* State
\* ---------------------------------------------------------------------

VARIABLES
  pc,         \* the statement of main() that runs next
  idx,        \* position of the running loop in its input (1-based)
  prices,     \* []ContentPriceRow
  emails,     \* []CustomerDataRow
  priceRecs,  \* buildPriceMap's working map ContentID -> ContentPriceRow
  emailRecs,  \* buildEmailMap's working map CustomerID -> CustomerDataRow
  priceMap,   \* map[int]float64
  emailMap,   \* map[int64]string
  events,     \* []EventRow
  caMap,      \* map[int64]float64, `ca` inside computeCA
  missingPrices, \* computeCA's map ContentID -> number of skipped events
  report,     \* the data-quality log entry of computeCA
  quantile,   \* the -quantile flag, a float64
  sorted,     \* []CustomerCA, descending by CA
  qstats,     \* qStats of main: map[int]QuantileStats, or nil
  top,        \* the top quantile: []CustomerCA, or nil
  table,      \* the sink table test_export_<date>: whether it exists, its rows
  batchSize,  \* the package variable batchSize
  tx,         \* the transaction exportTopCustomers has open, if any
  txLog,      \* the batches for which a transaction was begun in this run
  rows0,      \* the rows of the sink table when this run started
  prev,       \* the previous run against the same sink table, if any
  err,        \* the step whose error ended the run with log.Fatalf, or ""
  rowsErr     \* the loads whose rows.Err() is not nil

vars == <<pc, idx, prices, emails, priceRecs, emailRecs, priceMap, emailMap,
          events, caMap, missingPrices, report, quantile, sorted, qstats, top,
          table, batchSize, tx, txLog, rows0, prev, err, rowsErr>>

resolverVars == <<prices, emails, priceRecs, emailRecs, priceMap, emailMap>>
caVars == <<events, caMap, missingPrices, report>>
qVars == <<quantile, sorted, qstats, top>>
exportVars == <<table, batchSize, tx, txLog, rows0, prev, err, rowsErr>>

\* a Go map is a function; the empty map
EmptyMap == << >>

\* m[k] = v
Put(m, k, v) == [x \in DOMAIN m \cup {k} |-> IF x = k THEN v ELSE m[x]]

\* m[k], the zero value d when k is absent
Get(m, k, d) == IF k \in DOMAIN m THEN m[k] ELSE d

\* a nil map[int]QuantileStats and a nil []CustomerCA; a non-nil value has
\* isNil = FALSE
NilStats == [isNil |-> TRUE, m |-> EmptyMap]
NilTop == [isNil |-> TRUE, s |-> << >>]

\* no log entry yet
NoReport == [level |-> "none", msg |-> "", fields |-> EmptyMap]

\* var batchSize = 500
DefaultBatchSize == 500

\* the sink table before CREATE TABLE
NoTable == [exists |-> FALSE, rows |-> {}]

\* no transaction is open
NoTx == [open |-> FALSE, sub |-> << >>, pending |-> {}]

\* no earlier run
NoRun == [isNone |-> TRUE, start |-> {}, top |-> NilTop, end |-> {}]

\* the state of the export before main reaches it, the sink table holding t
ExportIdle(t) ==
  /\ table = t
  /\ batchSize = DefaultBatchSize
  /\ tx = NoTx
  /\ txLog = << >>
  /\ rows0 = t.rows
  /\ prev = NoRun
  /\ err = ""
  /\ rowsErr = {}

\* ---------------------------------------------------------------------
\* buildPriceMap, buildEmailMap
\* ---------------------------------------------------------------------

PriceWins_Before(p, ex) == p.InsertDate < ex.InsertDate
PriceWins_NotBefore(p, ex) == p.InsertDate >= ex.InsertDate

\* p.InsertDate.After(ex.InsertDate)
PriceWins(p, ex) == p.InsertDate > ex.InsertDate

PriceBody_NoInsert(m, p) ==
  IF p.ContentID \in DOMAIN m /\ PriceWins(p, m[p.ContentID])
  THEN Put(m, p.ContentID, p) ELSE m

\* one iteration of the loop of buildPriceMap
PriceBody(m, p) ==
  IF p.ContentID \notin DOMAIN m \/ PriceWins(p, m[p.ContentID])
  THEN Put(m, p.ContentID, p) ELSE m

\* the projection loop of buildPriceMap
PriceOut(m) == [k \in DOMAIN m |-> m[k].Price]

RECURSIVE PriceLoop(_, _)
PriceLoop(m, ps) ==
  IF ps = << >> THEN m ELSE PriceLoop(PriceBody(m, Head(ps)), Tail(ps))

BuildPriceMap(ps) == PriceOut(PriceLoop(EmptyMap, ps))

\* r.InsertDate.After(ex.InsertDate)
EmailWins(r, ex) == r.InsertDate > ex.InsertDate

\* one iteration of the loop of buildEmailMap
EmailBody(m, r) ==
  IF r.CustomerID \notin DOMAIN m \/ EmailWins(r, m[r.CustomerID])
  THEN Put(m, r.CustomerID, r) ELSE m

\* the projection loop of buildEmailMap
EmailOut(m) == [k \in DOMAIN m |-> m[k].ChannelValue]

RECURSIVE EmailLoop(_, _)
EmailLoop(m, rs) ==
  IF rs = << >> THEN m ELSE EmailLoop(EmailBody(m, Head(rs)), Tail(rs))

BuildEmailMap(rs) == EmailOut(EmailLoop(EmptyMap, rs))

BuildPriceMapStep ==
  /\ pc = "buildPriceMap"
  /\ idx <= Len(prices)
  /\ priceRecs' = PriceBody(priceRecs, prices[idx])
  /\ idx' = idx + 1
  /\ UNCHANGED <<pc, prices, emails, emailRecs, priceMap, emailMap>>
  /\ UNCHANGED caVars
  /\ UNCHANGED qVars
  /\ UNCHANGED exportVars

BuildPriceMapReturn ==
  /\ pc = "buildPriceMap"
  /\ idx > Len(prices)
  /\ priceMap' = PriceOut(priceRecs)
  /\ pc' = "buildEmailMap"
  /\ idx' = 1
  /\ UNCHANGED <<prices, emails, priceRecs, emailRecs, emailMap>>
  /\ UNCHANGED caVars
  /\ UNCHANGED qVars
  /\ UNCHANGED exportVars

BuildEmailMapStep ==
  /\ pc = "buildEmailMap"
  /\ idx <= Len(emails)
  /\ emailRecs' = EmailBody(emailRecs, emails[idx])
  /\ idx' = idx + 1
  /\ UNCHANGED <<pc, prices, emails, priceRecs, priceMap, emailMap>>
  /\ UNCHANGED caVars
  /\ UNCHANGED qVars
  /\ UNCHANGED exportVars

BuildEmailMapReturn ==
  /\ pc = "buildEmailMap"
  /\ idx > Len(emails)
  /\ emailMap' = EmailOut(emailRecs)
  /\ pc' = "computeCA"
  /\ idx' = 1
  /\ UNCHANGED <<prices, emails, priceRecs, emailRecs, priceMap>>
  /\ UNCHANGED caVars
  /\ UNCHANGED qVars
  /\ UNCHANGED exportVars

\* The resolver applied to every bounded input: a run resolves a price
\* input and a contact input, one of the two drawn from all inputs of up
\* to MaxRecs rows.
InitResolve ==
  /\ pc = "buildPriceMap"
  /\ idx = 1
  /\ \E n \in 0..MaxRecs :
       \/ prices \in PriceInputs(n) /\ emails = << >>
       \/ prices = << >> /\ emails \in EmailInputs(n)
  /\ priceRecs = EmptyMap
  /\ emailRecs = EmptyMap
  /\ priceMap = EmptyMap
  /\ emailMap = EmptyMap
  /\ events = << >>
  /\ caMap = EmptyMap
  /\ missingPrices = EmptyMap
  /\ report = NoReport
  /\ quantile = Lit(25, 1000)
  /\ sorted = << >>
  /\ qstats = NilStats
  /\ top = NilTop
  /\ ExportIdle(NoTable)

NextResolve ==
  \/ BuildPriceMapStep
  \/ BuildPriceMapReturn
  \/ BuildEmailMapStep
  \/ BuildEmailMapReturn

SpecResolve == InitResolve /\ [][NextResolve]_vars

\* the resolved maps exist
PricesResolved == pc \in {"buildEmailMap", "computeCA"}
EmailsResolved == pc = "computeCA"

PriceIdx(k) == {i \in 1..Len(prices) : prices[i].ContentID = k}
EmailIdx(k) == {i \in 1..Len(emails) : emails[i].CustomerID = k}
PriceMaxIdx(k) ==
  {i \in PriceIdx(k) : \A j \in PriceIdx(k) : prices[j].InsertDate <= prices[i].InsertDate}
EmailMaxIdx(k) ==
  {i \in EmailIdx(k) : \A j \in EmailIdx(k) : emails[j].InsertDate <= emails[i].InsertDate}

\* C1: the resolved mapping has exactly the keys of the input, and each
\* key's value is the value of a record of that key whose InsertDate is the
\* maximum among the key's records (an empty input gives an empty mapping).
C1_LatestWins ==
  /\ PricesResolved =>
       /\ DOMAIN priceMap = {prices[i].ContentID : i \in 1..Len(prices)}
       /\ \A k \in DOMAIN priceMap :
            \E i \in PriceMaxIdx(k) : priceMap[k] = prices[i].Price
  /\ EmailsResolved =>
       /\ DOMAIN emailMap = {emails[i].CustomerID : i \in 1..Len(emails)}
       /\ \A k \in DOMAIN emailMap :
            \E i \in EmailMaxIdx(k) : emailMap[k] = emails[i].ChannelValue

\* a key with an older record after its latest one, of another price
C1_Witness ==
  /\ EmailsResolved
  /\ \E k \in DOMAIN priceMap : \E i \in PriceMaxIdx(k) : \E j \in PriceIdx(k) :
       /\ i < j
       /\ prices[j].InsertDate < prices[i].InsertDate
       /\ prices[j].Price # prices[i].Price

\* C2 as claimed: among the records of a key that carry the maximal
\* InsertDate, the resolver keeps the one processed last.
C2_LaterWins ==
  /\ PricesResolved =>
       \A k \in DOMAIN priceRecs : \A i \in PriceMaxIdx(k) :
         i <= priceRecs[k].ContentPriceID
  /\ EmailsResolved =>
       \A k \in DOMAIN emailRecs : \A i \in EmailMaxIdx(k) :
         i <= emailRecs[k].CustomerChannelID

\* C2 amended: among the records of a key that carry the maximal
\* InsertDate, the resolver keeps the one processed first.
C2_EarlierWins ==
  /\ PricesResolved =>
       \A k \in DOMAIN priceRecs :
         /\ priceRecs[k].ContentPriceID \in PriceMaxIdx(k)
         /\ \A i \in PriceMaxIdx(k) : priceRecs[k].ContentPriceID <= i
         /\ priceMap[k] = prices[priceRecs[k].ContentPriceID].Price
  /\ EmailsResolved =>
       \A k \in DOMAIN emailRecs :
         /\ emailRecs[k].CustomerChannelID \in EmailMaxIdx(k)
         /\ \A i \in EmailMaxIdx(k) : emailRecs[k].CustomerChannelID <= i
         /\ emailMap[k] = emails[emailRecs[k].CustomerChannelID].ChannelValue

\* two records of one key tie on the maximal InsertDate with different prices
C2_Witness ==
  /\ EmailsResolved
  /\ \E k \in DOMAIN priceMap : \E i, j \in PriceMaxIdx(k) :
       i < j /\ prices[i].Price # prices[j].Price

\* all orders of the elements of a finite set
Orders(S) ==
  {s \in [1..Cardinality(S) -> S] : \A i, j \in DOMAIN s : i # j => s[i] # s[j]}

Range(f) == {f[x] : x \in DOMAIN f}

\* C3: an input with one record per key resolves to exactly its key/value
\* pairs, and resolving the records a resolution selected, in any order,
\* gives the same mapping again.
C3_Idempotent ==
  /\ PricesResolved =>
       /\ (\A k \in ContentIDs : Cardinality(PriceIdx(k)) <= 1) =>
            /\ DOMAIN priceMap = {prices[i].ContentID : i \in 1..Len(prices)}
            /\ \A i \in 1..Len(prices) : priceMap[prices[i].ContentID] = prices[i].Price
       /\ \A s \in Orders(Range(priceRecs)) : BuildPriceMap(s) = priceMap
  /\ EmailsResolved =>
       /\ (\A k \in CustomerIDs : Cardinality(EmailIdx(k)) <= 1) =>
            /\ DOMAIN emailMap = {emails[i].CustomerID : i \in 1..Len(emails)}
            /\ \A i \in 1..Len(emails) : emailMap[emails[i].CustomerID] = emails[i].ChannelValue
       /\ \A s \in Orders(Range(emailRecs)) : BuildEmailMap(s) = emailMap

\* an input of two keys, one record each, has been resolved
C3_Witness ==
  /\ EmailsResolved
  /\ Len(prices) = 2
  /\ prices[1].ContentID # prices[2].ContentID
  /\ DOMAIN priceMap = ContentIDs

\* ---------------------------------------------------------------------
\* computeCA
\* ---------------------------------------------------------------------

\* the event is skipped and counted, but `continue` is missing
CABody_NoContinue(ca, missing, e, pm) ==
  [ca |-> Put(ca, e.CustomerID,
              FAdd(Get(ca, e.CustomerID, {}),
                   FMul(Get(pm, e.ContentID, {}), Float(e.Quantity)))),
   missing |-> IF e.ContentID \in DOMAIN pm THEN missing
               ELSE Put(missing, e.ContentID, Get(missing, e.ContentID, 0) + 1)]

\* events of quantity zero are dropped
CABody_SkipZero(ca, missing, e, pm) ==
  IF e.ContentID \notin DOMAIN pm
  THEN [ca |-> ca,
        missing |-> Put(missing, e.ContentID, Get(missing, e.ContentID, 0) + 1)]
  ELSE [ca |-> IF e.Quantity = 0 THEN ca
               ELSE Put(ca, e.CustomerID,
                        FAdd(Get(ca, e.CustomerID, {}),
                             FMul(pm[e.ContentID], Float(e.Quantity)))),
        missing |-> missing]

\* one iteration of the loop of computeCA:
\*   price, ok := priceMap[e.ContentID]
\*   if !ok { missingPrices[e.ContentID]++; continue }
\*   ca[e.CustomerID] += price * float64(e.Quantity)
CABody(ca, missing, e, pm) ==
  IF e.ContentID \notin DOMAIN pm
  THEN [ca |-> ca,
        missing |-> Put(missing, e.ContentID, Get(missing, e.ContentID, 0) + 1)]
  ELSE [ca |-> Put(ca, e.CustomerID,
                   FAdd(Get(ca, e.CustomerID, {}),
                        FMul(pm[e.ContentID], Float(e.Quantity)))),
        missing |-> missing]

RECURSIVE CALoop(_, _, _, _)
CALoop(ca, missing, es, pm) ==
  IF es = << >> THEN [ca |-> ca, missing |-> missing]
  ELSE LET r == CABody(ca, missing, Head(es), pm)
       IN CALoop(r.ca, r.missing, Tail(es), pm)

\* the revenue map computeCA returns for the events es
ComputeCA(es, pm) == CALoop(EmptyMap, EmptyMap, es, pm).ca

\* for _, count := range missingPrices { totalSkipped += count }
RECURSIVE TotalSkipped(_)
TotalSkipped(missing) ==
  IF DOMAIN missing = {} THEN 0
  ELSE LET k == CHOOSE x \in DOMAIN missing : TRUE
       IN missing[k] + TotalSkipped([x \in DOMAIN missing \ {k} |-> missing[x]])

\* fmt.Sprintf("%.2f", x): the decimal with two digits after the point
\* nearest to the exact value of x, ties to even; the string is modelled by
\* its number of hundredths ("100.00" is 10000)
Fmt2(x) ==
  LET a    == BitMul(x, FromNat(100))
      ip   == {i \in a : i >= 0}
      up   == (-1) \in a /\ ((\E i \in a : i < -1) \/ 0 \in a)
  IN ToNat(IF up THEN BitAdd(ip, {0}) ELSE ip)

ReportOf_CountKeys(missing, n) ==
  IF DOMAIN missing # {}
  THEN [level |-> "warn", msg |-> "missing prices detected",
        fields |-> [unique_content_ids |-> Cardinality(DOMAIN missing),
                    total_events_skipped |-> Cardinality(DOMAIN missing),
                    percentage_skipped |->
                      Fmt2(FMul(FDiv(Float(Cardinality(DOMAIN missing)), Float(n)),
                                Float(100)))]]
  ELSE [level |-> "info", msg |-> "all events had corresponding prices",
        fields |-> EmptyMap]

\* the data-quality log entry written after the loop, n = len(events)
ReportOf(missing, n) ==
  IF DOMAIN missing # {}
  THEN [level |-> "warn", msg |-> "missing prices detected",
        fields |-> [unique_content_ids |-> Cardinality(DOMAIN missing),
                    total_events_skipped |-> TotalSkipped(missing),
                    percentage_skipped |->
                      Fmt2(FMul(FDiv(Float(TotalSkipped(missing)), Float(n)),
                                Float(100)))]]
  ELSE [level |-> "info", msg |-> "all events had corresponding prices",
        fields |-> EmptyMap]

ComputeCAStep ==
  /\ pc = "computeCA"
  /\ idx <= Len(events)
  /\ LET r == CABody(caMap, missingPrices, events[idx], priceMap)
     IN /\ caMap' = r.ca
        /\ missingPrices' = r.missing
  /\ idx' = idx + 1
  /\ UNCHANGED <<pc, events, report>>
  /\ UNCHANGED resolverVars
  /\ UNCHANGED qVars
  /\ UNCHANGED exportVars

ComputeCAReturn ==
  /\ pc = "computeCA"
  /\ idx > Len(events)
  /\ report' = ReportOf(missingPrices, Len(events))
  /\ pc' = "mapToSortedSlice"
  /\ idx' = 1
  /\ UNCHANGED <<events, caMap, missingPrices>>
  /\ UNCHANGED resolverVars
  /\ UNCHANGED qVars
  /\ UNCHANGED exportVars

\* the price maps of the aggregator runs: prices of TestComputeCA (9.99 and
\* 10.0), and no price at all
TestPrices == [k \in ContentIDs |-> IF k = 10 THEN Lit(999, 100) ELSE Float(10)]
PriceMaps == {TestPrices, EmptyMap}

\* computeCA applied to every event input of up to MaxEvents rows
InitCA ==
  /\ pc = "computeCA"
  /\ idx = 1
  /\ prices = << >>
  /\ emails = << >>
  /\ priceRecs = EmptyMap
  /\ emailRecs = EmptyMap
  /\ priceMap \in PriceMaps
  /\ emailMap = EmptyMap
  /\ \E n \in 0..MaxEvents : events \in EventInputs(n)
  /\ caMap = EmptyMap
  /\ missingPrices = EmptyMap
  /\ report = NoReport
  /\ quantile = Lit(25, 1000)
  /\ sorted = << >>
  /\ qstats = NilStats
  /\ top = NilTop
  /\ ExportIdle(NoTable)

NextCA ==
  \/ ComputeCAStep
  \/ ComputeCAReturn

SpecCA == InitCA /\ [][NextCA]_vars

\* computeCA has returned
CAComputed == pc = "mapToSortedSlice"

Priced(e) == e.ContentID \in DOMAIN priceMap

\* the float64 sum, in the order of es, of price * quantity over the
\* priced events of customer c
RECURSIVE SumOver(_, _, _)
SumOver(c, es, acc) ==
  IF es = << >> THEN acc
  ELSE LET e == Head(es)
       IN SumOver(c, Tail(es),
                  IF e.CustomerID = c /\ Priced(e)
                  THEN FAdd(acc, FMul(priceMap[e.ContentID], Float(e.Quantity)))
                  ELSE acc)

\* the rearrangements of a sequence
Permutations_(es) ==
  {[i \in 1..Len(es) |-> es[f[i]]] : f \in Orders(1..Len(es))}

\* C4 as claimed: every customer's total is the sum of quantity x unitPrice
\* over exactly that customer's priced events, and that total is the same
\* whatever the order of the events.
C4_Additivity ==
  CAComputed =>
    \A p \in Permutations_(events) : \A c \in DOMAIN caMap :
      caMap[c] = SumOver(c, p, {})

\* the total in the order of the input, which is what the code computes
C4_InputOrderSum ==
  CAComputed => \A c \in DOMAIN caMap : caMap[c] = SumOver(c, events, {})

\* C5: processing an event whose ContentID has no price leaves every running
\* total unchanged, creates no customer entry, and adds exactly one to the
\* skipped-event counter of that ContentID and to no other.
C5_Exclusion ==
  [][(pc = "computeCA" /\ idx <= Len(events) /\ ~Priced(events[idx])) =>
       /\ caMap' = caMap
       /\ DOMAIN missingPrices' = DOMAIN missingPrices \cup {events[idx].ContentID}
       /\ \A k \in DOMAIN missingPrices' :
            missingPrices'[k] = Get(missingPrices, k, 0)
                                 + (IF k = events[idx].ContentID THEN 1 ELSE 0)
       /\ idx' = idx + 1
       /\ UNCHANGED <<pc, events, report, priceMap>>]_vars

\* an unpriced event of a customer without total was just processed, while
\* another customer has a total
C5_Witness ==
  /\ pc = "computeCA"
  /\ idx > 1
  /\ ~Priced(events[idx - 1])
  /\ events[idx - 1].CustomerID \notin DOMAIN caMap
  /\ caMap # EmptyMap
  /\ missingPrices[UnpricedID] = 2

EventsOf(c) == {i \in 1..Len(events) : events[i].CustomerID = c}

\* C6: a customer is a key of the revenue map iff one of its events is
\* priced; a customer whose priced events all have quantity zero is present
\* with total zero.
C6_KeysArePricedCustomers ==
  CAComputed =>
    /\ DOMAIN caMap =
         {events[i].CustomerID : i \in {j \in 1..Len(events) : Priced(events[j])}}
    /\ \A c \in DOMAIN caMap :
         (\A i \in EventsOf(c) : Priced(events[i]) => events[i].Quantity = 0)
           => caMap[c] = {}

\* one customer only has unpriced events and is absent, another only has a
\* priced event of quantity zero and is present with total zero
C6_Witness ==
  /\ CAComputed
  /\ \E c, d \in CustomerIDs :
       /\ EventsOf(c) # {}
       /\ \A i \in EventsOf(c) : ~Priced(events[i])
       /\ c \notin DOMAIN caMap
       /\ EventsOf(d) # {}
       /\ \A i \in EventsOf(d) : Priced(events[i]) /\ events[i].Quantity = 0
       /\ d \in DOMAIN caMap
       /\ caMap[d] = {}

SkippedIdx == {i \in 1..Len(events) : ~Priced(events[i])}

\* C7: the report counts the distinct unpriced ContentIDs and the skipped
\* events exactly (priced + skipped = all events); it is a warning iff an
\* event was skipped and the confirmation otherwise, also for no events, where
\* no percentage is computed; when every event is unpriced the revenue map is
\* empty and the percentage is 100.00.
C7_ReportExact ==
  CAComputed =>
    /\ report.level = (IF SkippedIdx # {} THEN "warn" ELSE "info")
    /\ report.level = "warn" =>
         /\ report.fields.unique_content_ids =
              Cardinality({events[i].ContentID : i \in SkippedIdx})
         /\ report.fields.total_events_skipped = Cardinality(SkippedIdx)
         /\ Cardinality((1..Len(events)) \ SkippedIdx)
              + report.fields.total_events_skipped = Len(events)
    /\ report.level = "info" => DOMAIN report.fields = {}
    /\ (events # << >> /\ SkippedIdx = 1..Len(events)) =>
         /\ caMap = EmptyMap
         /\ report.level = "warn"
         /\ report.fields.percentage_skipped = 10000

\* two events of one unpriced ContentID were skipped and one event priced
C7_Witness ==
  /\ CAComputed
  /\ Cardinality(SkippedIdx) = 2
  /\ Len(events) = 3
  /\ report.fields.unique_content_ids = 1
  /\ report.fields.percentage_skipped = 6667

\* every event unpriced (Scenario C)
C7_WitnessAllSkipped ==
  /\ CAComputed
  /\ Len(events) = 2
  /\ priceMap = EmptyMap
  /\ report.fields.percentage_skipped = 10000

\* ---------------------------------------------------------------------
\* mapToSortedSlice, computeQuantiles
\* ---------------------------------------------------------------------

Less_Ascending(a, b) == FLess(a.CA, b.CA)

\* the less function of sort.Slice: out[i].CA > out[j].CA
Less(a, b) == FLess(b.CA, a.CA)

\* what sort.Slice guarantees of its result: no element is less than one
\* placed before it
IsSorted(s) == \A i, j \in 1..Len(s) : i < j => ~Less(s[j], s[i])

MapToSortedSliceResults_Unsorted(ca, em) ==
  {[i \in 1..Cardinality(DOMAIN ca) |->
      [CustomerID |-> o[i], Email |-> Get(em, o[i], ""), CA |-> ca[o[i]]]] :
    o \in Orders(DOMAIN ca)}

\* The results mapToSortedSlice can return: the map is ranged over in an
\* unspecified order and sort.Slice is not stable, so any sorted order of
\* the joined entries is possible.
MapToSortedSliceResults(ca, em) ==
  {s \in {[i \in 1..Cardinality(DOMAIN ca) |->
             [CustomerID |-> o[i], Email |-> Get(em, o[i], ""), CA |-> ca[o[i]]]] :
           o \in Orders(DOMAIN ca)} : IsSorted(s)}

\* qCount := int(math.Round(1.0 / quantile)); if qCount <= 0 { qCount = 1 }
QCount(q) ==
  LET qCount == ToInt(MathRound(FDiv(Float(1), q)))
  IN IF qCount <= 0 THEN 1 ELSE qCount

Size_FloorPlusOne(n, qCount) == (n \div qCount) + 1

\* size := int(math.Ceil(float64(n) / float64(qCount)))
Size(n, qCount) == ToInt(MathCeil(FDiv(Float(n), Float(qCount))))

Bucket_CountSize(s, i, size) ==
  LET n     == Len(s)
      start == i * size
      end   == IF start + size > n THEN n ELSE start + size
  IN IF start >= n THEN [MinCA |-> {}, MaxCA |-> {}, NbClients |-> 0]
     ELSE [MinCA |-> s[end].CA, MaxCA |-> s[start + 1].CA, NbClients |-> size]

Bucket_MinMaxSwapped(s, i, size) ==
  LET n     == Len(s)
      start == i * size
      end   == IF start + size > n THEN n ELSE start + size
  IN IF start >= n THEN [MinCA |-> {}, MaxCA |-> {}, NbClients |-> 0]
     ELSE [MinCA |-> s[start + 1].CA, MaxCA |-> s[end].CA, NbClients |-> end - start]

\* one iteration of the loop of computeQuantiles: qstats[i]
\* (sorted[start:end] is s[start+1] .. s[end] of the 1-based sequence)
Bucket(s, i, size) ==
  LET n     == Len(s)
      start == i * size
      end   == IF start + size > n THEN n ELSE start + size
  IN IF start >= n THEN [MinCA |-> {}, MaxCA |-> {}, NbClients |-> 0]
     ELSE [MinCA |-> s[end].CA, MaxCA |-> s[start + 1].CA, NbClients |-> end - start]

QuantilesOf_TopFloor(s, qCount, size) ==
  LET n    == Len(s)
      topN == n \div qCount
  IN [qstats |-> [isNil |-> FALSE,
                  m |-> [i \in 0..(qCount - 1) |-> Bucket(s, i, size)]],
      top |-> [isNil |-> FALSE, s |-> SubSeq(s, 1, topN)]]

\* the loop of computeQuantiles and the top quantile, for n > 0
QuantilesOf(s, qCount, size) ==
  LET n    == Len(s)
      topN == IF size > n THEN n ELSE size
  IN [qstats |-> [isNil |-> FALSE,
                  m |-> [i \in 0..(qCount - 1) |-> Bucket(s, i, size)]],
      top |-> [isNil |-> FALSE, s |-> SubSeq(s, 1, topN)]]

\* the possible results of computeQuantiles(s, q): exactly one
ComputeQuantiles(s, q) ==
  IF Len(s) = 0 THEN {[qstats |-> NilStats, top |-> NilTop]}
  ELSE UNION {{QuantilesOf(s, qCount, size) : size \in {Size(Len(s), qCount)}} :
                qCount \in {QCount(q)}}

MapToSortedSlice ==
  /\ pc = "mapToSortedSlice"
  /\ sorted' \in MapToSortedSliceResults(caMap, emailMap)
  /\ pc' = "computeQuantiles"
  /\ UNCHANGED <<idx, quantile, qstats, top>>
  /\ UNCHANGED resolverVars
  /\ UNCHANGED caVars
  /\ UNCHANGED exportVars

ComputeQuantilesCall ==
  /\ pc = "computeQuantiles"
  /\ \E r \in ComputeQuantiles(sorted, quantile) :
       /\ qstats' = r.qstats
       /\ top' = r.top
  /\ pc' = "ensureExportTable"
  /\ UNCHANGED <<idx, quantile, sorted>>
  /\ UNCHANGED resolverVars
  /\ UNCHANGED caVars
  /\ UNCHANGED exportVars

\* the contact map of the bucketer runs: customer 100 has a contact, the
\* others have none
TestEmails == [k \in {100} |-> "new@example.com"]

\* The ranking and the bucketer applied to every revenue map of up to
\* MaxCustomers customers and every quantile of Quantiles.
InitQ ==
  /\ pc = "mapToSortedSlice"
  /\ idx = 1
  /\ prices = << >>
  /\ emails = << >>
  /\ priceRecs = EmptyMap
  /\ emailRecs = EmptyMap
  /\ priceMap = EmptyMap
  /\ emailMap = TestEmails
  /\ events = << >>
  /\ \E S \in SUBSET RankedIDs : caMap \in [S -> CAVals]
  /\ missingPrices = EmptyMap
  /\ report = [level |-> "info", msg |-> "all events had corresponding prices",
               fields |-> EmptyMap]
  /\ quantile \in Quantiles
  /\ sorted = << >>
  /\ qstats = NilStats
  /\ top = NilTop
  /\ ExportIdle(NoTable)

NextQ ==
  \/ MapToSortedSlice
  \/ ComputeQuantilesCall

SpecQ == InitQ /\ [][NextQ]_vars

\* computeQuantiles has returned
QuantilesDone == pc = "ensureExportTable"

\* the float64 quotient 1.0 / quantile
Inverse == FDiv(Float(1), quantile)

\* r is the integer nearest to x >= 0, a half going up: r - 1/2 <= x < r + 1/2
IsRoundOf(r, x) ==
  /\ BitLess(Shift(x, 1), FromNat(2 * r + 1))
  /\ r > 0 => ~BitLess(Shift(x, 1), FromNat(2 * r - 1))

\* the bucket counts looked for
MaxK == 64

\* C8: for N > 0 computeQuantiles returns exactly K summaries, indexed
\* 0..K-1, where K is 1/q rounded to the nearest integer (halves away from
\* zero), raised to 1 when that is 0; for N = 0 both results are nil, which
\* is not a result of one empty bucket.
C8_BucketCount ==
  QuantilesDone =>
    /\ Len(sorted) > 0 =>
         /\ ~qstats.isNil /\ ~top.isNil
         /\ \E d \in {Inverse} : \E r \in 0..MaxK :
              /\ IsRoundOf(r, d)
              /\ DOMAIN qstats.m = 0..((IF r <= 0 THEN 1 ELSE r) - 1)
    /\ Len(sorted) = 0 =>
         /\ qstats.isNil /\ top.isNil
         /\ qstats # [isNil |-> FALSE,
                       m |-> [i \in {0} |-> [MinCA |-> {}, MaxCA |-> {}, NbClients |-> 0]]]

\* customers were bucketed with 1/q = 2.5, which rounds to 3 buckets
C8_Witness ==
  /\ QuantilesDone
  /\ Len(sorted) > 0
  /\ Inverse = {1, -1}
  /\ DOMAIN qstats.m = 0..2

\* 1/q rounds to 0 and one bucket is returned
C8_WitnessClamp ==
  /\ QuantilesDone
  /\ Len(sorted) > 0
  /\ IsRoundOf(0, Inverse)
  /\ DOMAIN qstats.m = {0}

\* no customer: nil, nil
C8_WitnessEmpty == QuantilesDone /\ Len(sorted) = 0 /\ qstats.isNil

RECURSIVE SumNbClients(_, _)
SumNbClients(m, k) ==
  IF k < 0 THEN 0 ELSE m[k].NbClients + SumNbClients(m, k - 1)

\* 0 < q <= 1
ValidQuantile == FLess({}, quantile) /\ ~FLess(Float(1), quantile)

\* C9: for N > 0 and q in (0, 1] the NbClients of the K summaries add up
\* to N.
C9_Coverage ==
  (QuantilesDone /\ Len(sorted) > 0 /\ ValidQuantile) =>
    \E K \in 1..MaxK :
      /\ DOMAIN qstats.m = 0..(K - 1)
      /\ SumNbClients(qstats.m, K - 1) = Len(sorted)

\* 3 customers in 2 buckets: sizes 2 and 1
C9_Witness ==
  /\ QuantilesDone
  /\ ValidQuantile
  /\ Len(sorted) = 3
  /\ DOMAIN qstats.m = {0, 1}
  /\ qstats.m[0].NbClients = 2
  /\ qstats.m[1].NbClients = 1

\* C10: on the output of mapToSortedSlice, consecutive non-empty buckets
\* are in descending order, bucket[i].MinCA >= bucket[i+1].MaxCA, and in
\* every non-empty bucket MaxCA >= MinCA.
C10_BucketOrder ==
  (QuantilesDone /\ ~qstats.isNil) =>
    /\ \A i \in DOMAIN qstats.m :
         qstats.m[i].NbClients > 0 => FGeq(qstats.m[i].MaxCA, qstats.m[i].MinCA)
    /\ \A i \in DOMAIN qstats.m :
         (i + 1 \in DOMAIN qstats.m /\ qstats.m[i].NbClients > 0
            /\ qstats.m[i + 1].NbClients > 0)
           => FGeq(qstats.m[i].MinCA, qstats.m[i + 1].MaxCA)

\* two non-empty buckets of two customers each with three different revenues
C10_Witness ==
  /\ QuantilesDone
  /\ ~qstats.isNil
  /\ DOMAIN qstats.m = {0, 1}
  /\ qstats.m[0].NbClients = 2
  /\ qstats.m[1].NbClients = 2
  /\ FLess(qstats.m[0].MinCA, qstats.m[0].MaxCA)
  /\ FLess(qstats.m[1].MaxCA, qstats.m[0].MinCA)

\* the least integer c with c * k >= n, for n >= 0 and k >= 1
CeilDiv(n, k) == CHOOSE c \in 0..n : (c - 1) * k < n /\ n <= c * k

Min(a, b) == IF a < b THEN a ELSE b

\* the number of summaries returned
NumBuckets == Cardinality(DOMAIN qstats.m)

\* C11: for N > 0 the top list is exactly the first min(S, N) elements of
\* the ranked input, in the same order, with S = ceil(N / K); its length
\* is the NbClients of summary 0, and the revenues of its first and last
\* elements are the MaxCA and MinCA of summary 0.
C11_TopBucket ==
  (QuantilesDone /\ Len(sorted) > 0) =>
    \E K \in {NumBuckets} : \E S \in {CeilDiv(Len(sorted), K)} :
      /\ top.s = SubSeq(sorted, 1, Min(S, Len(sorted)))
      /\ Len(top.s) = qstats.m[0].NbClients
      /\ Len(top.s) > 0
      /\ top.s[1].CA = qstats.m[0].MaxCA
      /\ top.s[Len(top.s)].CA = qstats.m[0].MinCA

\* 4 customers in 2 buckets: the top list is the first 2 of the ranking,
\* with different revenues at its ends
C11_Witness ==
  /\ QuantilesDone
  /\ Len(sorted) = 4
  /\ NumBuckets = 2
  /\ Len(top.s) = 2
  /\ FLess(top.s[2].CA, top.s[1].CA)

\* C16: with S = ceil(N / K), summary i of 0..K-1 has, when i * S < N,
\* NbClients = min((i+1) * S, N) - i * S, MaxCA the revenue at position
\* i * S of the ranked input and MinCA the revenue at position
\* min((i+1) * S, N) - 1; otherwise NbClients = 0 and MinCA = MaxCA = 0.
\* (position p of the source is element p + 1 of the sequence)
C16_BucketSummaries ==
  (QuantilesDone /\ Len(sorted) > 0) =>
    \E N \in {Len(sorted)} : \E K \in {NumBuckets} : \E S \in {CeilDiv(N, K)} :
      /\ DOMAIN qstats.m = 0..(K - 1)
      /\ \A i \in 0..(K - 1) :
           IF i * S < N
           THEN /\ qstats.m[i].NbClients = Min((i + 1) * S, N) - i * S
                /\ qstats.m[i].MaxCA = sorted[i * S + 1].CA
                /\ qstats.m[i].MinCA = sorted[Min((i + 1) * S, N)].CA
           ELSE qstats.m[i] = [MinCA |-> {}, MaxCA |-> {}, NbClients |-> 0]

\* 3 customers in 4 buckets of size 1: a full bucket with a positive
\* revenue and an empty last bucket
C16_Witness ==
  /\ QuantilesDone
  /\ Len(sorted) = 3
  /\ NumBuckets = 4
  /\ qstats.m[1].NbClients = 1
  /\ FLess({}, qstats.m[1].MaxCA)
  /\ qstats.m[3].NbClients = 0

\* 3 customers in 2 buckets: the last bucket is cut short at N
C16_WitnessShort ==
  /\ QuantilesDone
  /\ Len(sorted) = 3
  /\ NumBuckets = 2
  /\ qstats.m[1].NbClients = 1

\* mapToSortedSlice has returned
Ranked == pc \in {"computeQuantiles", "ensureExportTable"}

\* C18: mapToSortedSlice returns exactly one entry per key of the revenue
\* map (same length, no customer duplicated or dropped), each entry
\* carrying that customer's revenue and its resolved contact, or the empty
\* string when it has none, and the revenue at position i is at least the
\* revenue at position i + 1.
C18_RankedSequence ==
  Ranked =>
    /\ Len(sorted) = Cardinality(DOMAIN caMap)
    /\ {sorted[i].CustomerID : i \in 1..Len(sorted)} = DOMAIN caMap
    /\ \A i, j \in 1..Len(sorted) :
         sorted[i].CustomerID = sorted[j].CustomerID => i = j
    /\ \A i \in 1..Len(sorted) :
         /\ sorted[i].CA = caMap[sorted[i].CustomerID]
         /\ sorted[i].Email =
              IF sorted[i].CustomerID \in DOMAIN emailMap
              THEN emailMap[sorted[i].CustomerID] ELSE ""
    /\ \A i \in 1..(Len(sorted) - 1) : FGeq(sorted[i].CA, sorted[i + 1].CA)

\* three customers were ranked: one with a contact and one without, the
\* revenue map not being in ranking order by customer number
C18_Witness ==
  /\ Ranked
  /\ Len(sorted) = 3
  /\ \E i, j \in 1..3 :
       /\ sorted[i].Email = "new@example.com"
       /\ sorted[j].Email = ""
  /\ FLess(sorted[3].CA, sorted[1].CA)
  /\ sorted[1].CustomerID > sorted[3].CustomerID

\* C19: for N > 0 and K >= 1, bucket 0 is never empty; S = ceil(N / K) is
\* at most N, so the top list has exactly S members; the empty buckets
\* form a suffix of the summaries; and every non-empty bucket other than
\* the last non-empty one has exactly S members.
C19_PartitionShape ==
  (QuantilesDone /\ Len(sorted) > 0) =>
    \E N \in {Len(sorted)} : \E K \in {NumBuckets} : \E S \in {CeilDiv(N, K)} :
      /\ K >= 1
      /\ qstats.m[0].NbClients > 0
      /\ S <= N
      /\ Len(top.s) = S
      /\ \A i, j \in 0..(K - 1) :
           (i < j /\ qstats.m[i].NbClients = 0) => qstats.m[j].NbClients = 0
      /\ \A i, j \in 0..(K - 1) :
           (i < j /\ qstats.m[j].NbClients > 0) => qstats.m[i].NbClients = S

\* 3 customers in 40 buckets: 3 buckets of one customer, then 37 empty ones
C19_Witness ==
  /\ QuantilesDone
  /\ Len(sorted) = 3
  /\ NumBuckets = 40
  /\ qstats.m[2].NbClients = 1
  /\ qstats.m[3].NbClients = 0
  /\ qstats.m[39].NbClients = 0

\* 3 customers in 2 buckets: a full bucket before a shorter last one
C19_WitnessShortLast ==
  /\ QuantilesDone
  /\ Len(sorted) = 3
  /\ NumBuckets = 2
  /\ qstats.m[0].NbClients = 2
  /\ qstats.m[1].NbClients = 1
  /\ Len(top.s) = 2

\* ---------------------------------------------------------------------
\* ensureExportTable, exportTopCustomers
\* ---------------------------------------------------------------------

\* the variables the export leaves alone
pipelineVars == <<prices, emails, priceRecs, emailRecs, priceMap, emailMap,
                  events, caMap, missingPrices, report, quantile, sorted, qstats>>

\* the row written for a member of the top quantile: r.cid, r.email and
\* fmt.Sprintf("%.2f", r.ca), which the CA DECIMAL(18,2) column holds as a
\* number of hundredths
RowOf(c) == [CustomerID |-> c.CustomerID, Email |-> c.Email, CA |-> Fmt2(c.CA)]

UpsertRow_InsertIgnore(rows, r) ==
  IF \E x \in rows : x.CustomerID = r.CustomerID THEN rows ELSE rows \cup {r}

UpsertRow_Append(rows, r) == rows \cup {r}

\* INSERT INTO t (CustomerID, Email, CA) VALUES (r) ON DUPLICATE KEY UPDATE
\* Email=VALUES(Email), CA=VALUES(CA), on a table whose primary key is
\* CustomerID: the row of that key is replaced, or r is added
UpsertRow(rows, r) == {x \in rows : x.CustomerID # r.CustomerID} \cup {r}

\* the multi-row statement of one batch: its value tuples applied in order
RECURSIVE Upsert(_, _)
Upsert(rows, sub) ==
  IF sub = << >> THEN rows
  ELSE Upsert(UpsertRow(rows, RowOf(Head(sub))), Tail(sub))

Sub_Overlap(s, i, size) ==
  SubSeq(s, IF i > 1 THEN i - 1 ELSE i,
         IF i - 1 + size > Len(s) THEN Len(s) ELSE i - 1 + size)

\* sub := rows[i:end] with end = i + batchSize clamped to len(rows); here
\* i is the 1-based position of the first row of the batch
Sub(s, i, size) ==
  SubSeq(s, i, IF i - 1 + size > Len(s) THEN Len(s) ELSE i - 1 + size)

AfterRollback_Partial(rows, sub) == UpsertRow(rows, RowOf(sub[1]))

\* the rows of the table after tx.Exec failed and tx.Rollback() ran
AfterRollback(rows, sub) == rows

\* log.Fatalf after the call named `step` returned an error
Fatal(step) == pc' = "fatal" /\ err' = step

\* CREATE TABLE IF NOT EXISTS: an existing table keeps its rows; main ends
\* the run when the statement fails
EnsureExportTable ==
  /\ pc = "ensureExportTable"
  /\ \E ok \in BOOLEAN :
       IF ok
       THEN /\ table' = [table EXCEPT !.exists = TRUE]
            /\ pc' = "exportTopCustomers"
            /\ err' = err
       ELSE /\ table' = table
            /\ Fatal("ensureExportTable")
  /\ UNCHANGED <<idx, top, batchSize, tx, txLog, rows0, prev, rowsErr>>
  /\ UNCHANGED pipelineVars

\* exportTopCustomers up to its loop: nothing to do for an empty list
ExportStart ==
  /\ pc = "exportTopCustomers"
  /\ pc' = IF Len(top.s) = 0 THEN "done" ELSE "db.Begin"
  /\ idx' = 1
  /\ UNCHANGED <<top, table, batchSize, tx, txLog, rows0, prev, err, rowsErr>>
  /\ UNCHANGED pipelineVars

\* tx, err := db.Begin() for the batch that starts at idx
ExportBegin ==
  /\ pc = "db.Begin"
  /\ \E ok \in BOOLEAN :
       IF ok
       THEN \E sub \in {Sub(top.s, idx, batchSize)} :
              /\ tx' = [open |-> TRUE, sub |-> sub, pending |-> {}]
              /\ txLog' = Append(txLog, sub)
              /\ pc' = "tx.Exec"
              /\ err' = err
       ELSE /\ Fatal("db.Begin")
            /\ UNCHANGED <<tx, txLog>>
  /\ UNCHANGED <<idx, top, table, batchSize, rows0, prev, rowsErr>>
  /\ UNCHANGED pipelineVars

\* tx.Exec(q, args...): the batch is written inside the transaction; on an
\* error the transaction is rolled back and the error returned
ExportExec ==
  /\ pc = "tx.Exec"
  /\ \E ok \in BOOLEAN :
       IF ok
       THEN /\ tx' = [tx EXCEPT !.pending = Upsert(table.rows, tx.sub)]
            /\ table' = table
            /\ pc' = "tx.Commit"
            /\ err' = err
       ELSE /\ tx' = NoTx
            /\ table' = [table EXCEPT !.rows = AfterRollback(table.rows, tx.sub)]
            /\ Fatal("tx.Exec")
  /\ UNCHANGED <<idx, top, batchSize, txLog, rows0, prev, rowsErr>>
  /\ UNCHANGED pipelineVars

\* tx.Commit(): the batch becomes visible and the loop moves on by
\* batchSize; a commit that returns an error has committed nothing, and
\* its error is returned
ExportCommit ==
  /\ pc = "tx.Commit"
  /\ \E ok \in BOOLEAN :
       IF ok
       THEN /\ table' = [table EXCEPT !.rows = tx.pending]
            /\ idx' = idx + batchSize
            /\ pc' = IF idx + batchSize > Len(top.s) THEN "done" ELSE "db.Begin"
            /\ err' = err
       ELSE /\ table' = table
            /\ idx' = idx
            /\ Fatal("tx.Commit")
  /\ tx' = NoTx
  /\ UNCHANGED <<top, batchSize, txLog, rows0, prev, rowsErr>>
  /\ UNCHANGED pipelineVars

\* the customers of the exported lists
ExportIDs == {100, 101, 102}

\* the revenues of the exported lists
TopCAs == {Lit(999, 100), Lit(1998, 100)}

\* the top lists computeQuantiles can hand to the export: nil, or a ranked
\* list of one or more customers
TopChoices ==
  {NilTop} \cup
  {[isNil |-> FALSE, s |-> s] :
     s \in UNION {MapToSortedSliceResults(ca, TestEmails) :
                    ca \in UNION {[S -> TopCAs] : S \in SUBSET ExportIDs \ {{}}}}}

\* the sink table before a run: absent, empty, or left by earlier runs
\* with a row of customer 100 and a row of a customer never exported again
InitialSinks ==
  {NoTable,
   [exists |-> TRUE, rows |-> {}],
   [exists |-> TRUE,
    rows |-> {[CustomerID |-> 100, Email |-> "old@example.com", CA |-> 500],
              [CustomerID |-> 200, Email |-> "", CA |-> 100]}]}

\* the batch sizes tried
MaxBatch == 2

\* main is run again, on the same day, against the same sink table, with a
\* top quantile computed anew
Rerun ==
  /\ pc = "done"
  /\ prev.isNone
  /\ prev' = [isNone |-> FALSE, start |-> rows0, top |-> top, end |-> table.rows]
  /\ rows0' = table.rows
  /\ top' \in TopChoices
  /\ txLog' = << >>
  /\ idx' = 1
  /\ pc' = "ensureExportTable"
  /\ UNCHANGED <<table, batchSize, tx, err, rowsErr>>
  /\ UNCHANGED pipelineVars

\* The export of every top list of TopChoices into every sink of
\* InitialSinks with every batch size up to MaxBatch, followed by a second
\* run; the export reads only the top list and the table.
InitExport ==
  /\ pc = "ensureExportTable"
  /\ idx = 1
  /\ prices = << >>
  /\ emails = << >>
  /\ priceRecs = EmptyMap
  /\ emailRecs = EmptyMap
  /\ priceMap = EmptyMap
  /\ emailMap = TestEmails
  /\ events = << >>
  /\ caMap = EmptyMap
  /\ missingPrices = EmptyMap
  /\ report = NoReport
  /\ quantile = Float(1)
  /\ top \in TopChoices
  /\ sorted = top.s
  /\ qstats = NilStats
  /\ table \in InitialSinks
  /\ batchSize \in 1..MaxBatch
  /\ tx = NoTx
  /\ txLog = << >>
  /\ rows0 = table.rows
  /\ prev = NoRun
  /\ err = ""
  /\ rowsErr = {}

NextExport ==
  \/ EnsureExportTable
  \/ ExportStart
  \/ ExportBegin
  \/ ExportExec
  \/ ExportCommit
  \/ Rerun

SpecExport == InitExport /\ [][NextExport]_vars

\* the run has ended without an error
ExportDone == pc = "done"

\* the members of a top list
Members(t) == {t.s[i] : i \in 1..Len(t.s)}

\* no two rows of the sink table have the same CustomerID
UniqueKeys == \A x, y \in table.rows : x.CustomerID = y.CustomerID => x = y

\* C12: from any state of the sink, when exportTopCustomers has run twice
\* without a failure on the same membership list, the sink holds exactly
\* one row for every exported customer, with the values of the second run,
\* and its state is the state the first run left; and no sequence of
\* exports leaves two rows with the same CustomerID.
C12_ExportIdempotent ==
  /\ UniqueKeys
  /\ (ExportDone /\ ~prev.isNone /\ Members(prev.top) = Members(top)) =>
       /\ \A c \in Members(top) :
            {x \in table.rows : x.CustomerID = c.CustomerID} = {RowOf(c)}
       /\ table.rows = prev.end

\* three customers were exported twice in batches of two into a table that
\* held an older row of one of them and a row of another customer
C12_Witness ==
  /\ ExportDone
  /\ ~prev.isNone
  /\ Members(prev.top) = Members(top)
  /\ Len(top.s) = 3
  /\ batchSize = 2
  /\ [CustomerID |-> 100, Email |-> "old@example.com", CA |-> 500] \in prev.start
  /\ [CustomerID |-> 100, Email |-> "new@example.com", CA |-> 1998] \in table.rows
  /\ [CustomerID |-> 200, Email |-> "", CA |-> 100] \in table.rows

\* C13: after two runs against the same sink table, the second with a top
\* quantile that may differ from the first in members and in values, the
\* sink holds one row per customer and every row of the sink is a row of
\* the latest top quantile; no run failed on a duplicate key.  (stated for
\* a table that was empty or absent before the first run)
C13_SinkIsLatestTop ==
  (ExportDone /\ ~prev.isNone /\ prev.start = {}) =>
    /\ UniqueKeys
    /\ \A x \in table.rows : \E c \in Members(top) : x = RowOf(c)

\* what the upsert does leave: every member of the latest top quantile
\* has its one row with the latest values, and a row of any other customer
\* is as the first run left it
C13_LatestMembersOnly ==
  (ExportDone /\ ~prev.isNone) =>
    /\ UniqueKeys
    /\ \A c \in Members(top) : RowOf(c) \in table.rows
    /\ \A x \in table.rows :
         (\A c \in Members(top) : c.CustomerID # x.CustomerID) => x \in prev.end

\* two runs ended; the second one's top quantile lacks a customer of the
\* first one's, whose row is still in the sink
C13_StaleRow ==
  /\ ExportDone
  /\ ~prev.isNone
  /\ prev.start = {}
  /\ \E c \in Members(prev.top) :
       /\ \A d \in Members(top) : d.CustomerID # c.CustomerID
       /\ RowOf(c) \in table.rows

\* the sink rows after the first k batches of this run were committed
Leading(k) == Upsert(rows0, SubSeq(top.s, 1, Min(k * batchSize, Len(top.s))))

\* exportTopCustomers is running or has returned
InExport ==
  \/ pc \in {"db.Begin", "tx.Exec", "tx.Commit", "done"}
  \/ pc = "fatal" /\ err \in {"db.Begin", "tx.Exec", "tx.Commit"}

\* the batches committed so far, by the position of the loop
Committed == (idx - 1) \div batchSize

\* C14: when the write of batch j fails the run ends with the error, the
\* sink shows the rows of batches 0..j-1 as written and nothing of batch
\* j, and no later batch was begun; at every point of an export the sink
\* holds a whole number of leading batches.
C14_BatchAtomic ==
  InExport =>
    /\ Committed \in 0..CeilDiv(Len(top.s), batchSize)
    /\ table.rows = Leading(Committed)
    /\ (pc = "fatal" /\ err \in {"tx.Exec", "tx.Commit"}) =>
         /\ Len(txLog) = Committed + 1
         /\ ~tx.open
    /\ (pc = "fatal" /\ err = "db.Begin") => Len(txLog) = Committed

\* the second of two batches failed in tx.Exec: the first batch's rows
\* are in the sink, the second batch's row is not
C14_Witness ==
  /\ pc = "fatal"
  /\ err = "tx.Exec"
  /\ prev.isNone
  /\ rows0 = {}
  /\ batchSize = 2
  /\ Len(top.s) = 3
  /\ Len(txLog) = 2
  /\ table.rows = {RowOf(top.s[1]), RowOf(top.s[2])}

\* a commit failed after a batch had been committed
C14_WitnessCommit ==
  /\ pc = "fatal"
  /\ err = "tx.Commit"
  /\ Committed = 1
  /\ table.rows # rows0

\* the batch with number k (from 0) of the partition of the top list
BatchOf(k) ==
  SubSeq(top.s, k * batchSize + 1, Min((k + 1) * batchSize, Len(top.s)))

\* C17: for a list of M rows and a batch size B >= 1 an export without a
\* failure begins exactly ceil(M / B) transactions, one after the other
\* and never two at once; batch k holds the rows [k*B, min((k+1)*B, M)) in
\* list order, every batch but the last has exactly B rows and every
\* member is written in exactly one batch; for M = 0 no transaction is
\* begun, the rows of the sink are unchanged and the run is not in error.
C17_BatchPartition ==
  /\ InExport =>
       /\ batchSize >= 1
       /\ Len(txLog) = Committed + (IF tx.open THEN 1 ELSE 0)
            \/ (pc = "fatal" /\ err \in {"tx.Exec", "tx.Commit"})
       /\ \A k \in 0..(Len(txLog) - 1) : txLog[k + 1] = BatchOf(k)
  /\ ExportDone =>
       \E M \in {Len(top.s)} : \E n \in {CeilDiv(M, batchSize)} :
         /\ Len(txLog) = n
         /\ ~tx.open
         /\ \A k \in 0..(n - 2) : Len(txLog[k + 1]) = batchSize
         /\ \A i \in 1..M :
              Cardinality({<<k, j>> \in (1..n) \X (1..batchSize) :
                             j <= Len(txLog[k]) /\ txLog[k][j] = top.s[i]}) = 1
         /\ M = 0 => (txLog = << >> /\ table.rows = rows0 /\ err = "")

\* three rows were exported in batches of two: a batch of 2, then one of 1
C17_Witness ==
  /\ ExportDone
  /\ batchSize = 2
  /\ Len(top.s) = 3
  /\ Len(txLog) = 2
  /\ Len(txLog[1]) = 2
  /\ Len(txLog[2]) = 1

\* an empty top list was exported into a table that holds rows
C17_WitnessEmpty ==
  /\ ExportDone
  /\ Len(top.s) = 0
  /\ txLog = << >>
  /\ table.rows # {}

\* ---------------------------------------------------------------------
\* main: openDB, the three loads, and the whole pipeline
\* ---------------------------------------------------------------------

\* What a load function can return when its query has the result set
\* `full`: all rows and a nil error; a nil slice and the error of db.Query
\* or rows.Scan; or, when the iteration of the result set ends early with
\* an error, the rows read so far and a nil error, because rows.Next()
\* then returns false and rows.Err() is never read.
LoadResults(full) ==
  {[out |-> full, failed |-> FALSE, rowsErr |-> FALSE],
   [out |-> << >>, failed |-> TRUE, rowsErr |-> FALSE]}
  \cup {[out |-> SubSeq(full, 1, k), failed |-> FALSE, rowsErr |-> TRUE] :
          k \in 0..(Len(full) - 1)}

\* the result sets of the three queries in the pipeline runs
RunEvents == UNION {EventInputs(n) : n \in 0..2}
RunPrices ==
  {<< >>,
   <<[ContentPriceID |-> 1, ContentID |-> 10, Price |-> Lit(999, 100), InsertDate |-> 1],
     [ContentPriceID |-> 2, ContentID |-> 11, Price |-> Float(5), InsertDate |-> 2]>>}
RunEmails ==
  {<< >>,
   <<[CustomerChannelID |-> 1, CustomerID |-> 100,
      ChannelValue |-> "new@example.com", InsertDate |-> 1]>>}
RunQuantiles == {Lit(25, 1000), Lit(5, 10)}

\* db, err := openDB(): fails when the credentials are missing
OpenDB ==
  /\ pc = "openDB"
  /\ \E ok \in BOOLEAN :
       IF ok THEN pc' = "loadEvents" /\ err' = err
       ELSE Fatal("openDB")
  /\ UNCHANGED <<idx, table, batchSize, tx, txLog, rows0, prev, rowsErr>>
  /\ UNCHANGED resolverVars
  /\ UNCHANGED caVars
  /\ UNCHANGED qVars

\* events, err := loadEvents(db, since)
LoadEvents ==
  /\ pc = "loadEvents"
  /\ \E full \in RunEvents : \E r \in LoadResults(full) :
       /\ events' = r.out
       /\ rowsErr' = IF r.rowsErr THEN rowsErr \cup {"loadEvents"} ELSE rowsErr
       /\ IF r.failed THEN Fatal("loadEvents")
          ELSE pc' = "loadContentPrices" /\ err' = err
  /\ UNCHANGED <<idx, caMap, missingPrices, report>>
  /\ UNCHANGED <<table, batchSize, tx, txLog, rows0, prev>>
  /\ UNCHANGED resolverVars
  /\ UNCHANGED qVars

\* prices, err := loadContentPrices(db)
LoadContentPrices ==
  /\ pc = "loadContentPrices"
  /\ \E full \in RunPrices : \E r \in LoadResults(full) :
       /\ prices' = r.out
       /\ rowsErr' = IF r.rowsErr THEN rowsErr \cup {"loadContentPrices"} ELSE rowsErr
       /\ IF r.failed THEN Fatal("loadContentPrices")
          ELSE pc' = "loadCustomerEmails" /\ err' = err
  /\ UNCHANGED <<idx, emails, priceRecs, emailRecs, priceMap, emailMap>>
  /\ UNCHANGED <<table, batchSize, tx, txLog, rows0, prev>>
  /\ UNCHANGED caVars
  /\ UNCHANGED qVars

\* emails, err := loadCustomerEmails(db)
LoadCustomerEmails ==
  /\ pc = "loadCustomerEmails"
  /\ \E full \in RunEmails : \E r \in LoadResults(full) :
       /\ emails' = r.out
       /\ rowsErr' = IF r.rowsErr THEN rowsErr \cup {"loadCustomerEmails"} ELSE rowsErr
       /\ IF r.failed THEN Fatal("loadCustomerEmails")
          ELSE pc' = "buildPriceMap" /\ err' = err
  /\ UNCHANGED <<idx, prices, priceRecs, emailRecs, priceMap, emailMap>>
  /\ UNCHANGED <<table, batchSize, tx, txLog, rows0, prev>>
  /\ UNCHANGED caVars
  /\ UNCHANGED qVars

\* One run of main with the default batch size, the sink table of the day
\* not existing yet.
Init ==
  /\ pc = "openDB"
  /\ idx = 1
  /\ prices = << >>
  /\ emails = << >>
  /\ priceRecs = EmptyMap
  /\ emailRecs = EmptyMap
  /\ priceMap = EmptyMap
  /\ emailMap = EmptyMap
  /\ events = << >>
  /\ caMap = EmptyMap
  /\ missingPrices = EmptyMap
  /\ report = NoReport
  /\ quantile \in RunQuantiles
  /\ sorted = << >>
  /\ qstats = NilStats
  /\ top = NilTop
  /\ ExportIdle(NoTable)

Next ==
  \/ OpenDB
  \/ LoadEvents
  \/ LoadContentPrices
  \/ LoadCustomerEmails
  \/ BuildPriceMapStep
  \/ BuildPriceMapReturn
  \/ BuildEmailMapStep
  \/ BuildEmailMapReturn
  \/ ComputeCAStep
  \/ ComputeCAReturn
  \/ MapToSortedSlice
  \/ ComputeQuantilesCall
  \/ EnsureExportTable
  \/ ExportStart
  \/ ExportBegin
  \/ ExportExec
  \/ ExportCommit

Spec == Init /\ [][Next]_vars

\* the steps of main in the order of its text
Stages ==
  <<"openDB", "loadEvents", "loadContentPrices", "loadCustomerEmails",
    "buildPriceMap", "buildEmailMap", "computeCA", "mapToSortedSlice",
    "computeQuantiles", "ensureExportTable", "exportTopCustomers",
    "db.Begin", "tx.Exec", "tx.Commit", "done">>

StageRank(st) == CHOOSE i \in 1..Len(Stages) : Stages[i] = st

\* the step the run is at, or at which it was ended
Stage == IF pc = "fatal" THEN err ELSE pc

\* the step st has not been completed
Before(st) == StageRank(Stage) <= StageRank(st)

Loads == {"loadEvents", "loadContentPrices", "loadCustomerEmails"}

\* a load met an error: returned by db.Query or rows.Scan, or left in
\* rows.Err() by the iteration
LoadFailed == rowsErr # {} \/ (pc = "fatal" /\ err \in Loads)

\* C15: the steps run in the order load events, load prices, load
\* contacts, resolve, aggregate, bucket, ensure table, export, none having
\* produced anything before the ones ahead of it are done; and when one of
\* the three loads fails the run ends at that step, nothing is aggregated
\* over what was loaded and nothing is written to the sink, neither the
\* table nor a row.
C15_AbortOnFirstError ==
  /\ Before("loadEvents") => events = << >>
  /\ Before("loadContentPrices") => prices = << >>
  /\ Before("loadCustomerEmails") => emails = << >> /\ priceRecs = EmptyMap
  /\ Before("buildPriceMap") => priceMap = EmptyMap /\ emailRecs = EmptyMap
  /\ Before("buildEmailMap") =>
       emailMap = EmptyMap /\ caMap = EmptyMap /\ missingPrices = EmptyMap
  /\ Before("computeCA") => report = NoReport /\ sorted = << >>
  /\ Before("computeQuantiles") => qstats = NilStats /\ top = NilTop
  /\ Before("ensureExportTable") => table = NoTable
  /\ Before("tx.Exec") => table.rows = {}
  /\ LoadFailed =>
       /\ pc = "fatal" /\ err \in Loads
       /\ caMap = EmptyMap /\ missingPrices = EmptyMap
       /\ table = NoTable

\* the iteration of the events ended early with an error; the run went on,
\* computed revenues from the events read and wrote them to the sink
C15_PartialLoadExported ==
  /\ pc = "done"
  /\ rowsErr = {"loadEvents"}
  /\ Len(events) = 1
  /\ caMap # EmptyMap
  /\ table.rows # {}
====
